---- MODULE Spec2Model ----
(***************************************************************************)
(* A model of access_audit.py: the "did"/"could" access queries (file      *)
(* selection, aggregation per calendar date, merging of consecutive days,  *)
(* text and CSV rendering) and the snapshot logger log_could_access.       *)
(*                                                                         *)
(* Python strings are sequences of one-character tokens, ordered by code   *)
(* point.  Dates are day numbers counted from BaseDate; a time is a whole  *)
(* number of seconds since local midnight of BaseDate plus a microsecond   *)
(* part (utmp's sec/usec, the fraction of a float timestamp).              *)
(***************************************************************************)
EXTENDS Integers, Sequences, FiniteSets, TLC

VARIABLES
    pc,              \* position of the query run
    query_type,      \* "did" | "could"
    days,            \* the DAYS argument
    output_csv,      \* the --csv flag, drawn where the query picks its renderer
    fs,              \* the log directory: a set of files [name, mtime, content]
    passwd,          \* the password database: a sequence of [pw_name, pw_gecos]
    query_time,      \* local of the query functions
    log_files,       \* local: result of compile_logs
    log_buffer,      \* local: decoded entries of the selected files
    users,           \* local: list of distinct users
    records,         \* local: dict date -> record, in insertion order
    merged_records,  \* local of output_text_results: result of sort_and_merge
    first_merged,    \* the interval list handed back to sort_and_merge
    baseline,        \* what an earlier run selected and computed, and the
                     \* file added to the directory since
    out,             \* stdout, one element per printed line
    keys_file,       \* KEYS_FILE: a sequence of lines
    could_log,       \* the snapshot log: the characters on disk
    wpc,             \* per log_could_access invocation: its position
    wrow,            \* per invocation: its timestamp and the users of its row
    wpos,            \* per invocation: the offset of its file object at open
    wbuf,            \* per invocation: the text buffered in its file object
    prior_log,       \* the snapshot log before the invocations started
    clock            \* time(): microseconds past today's midnight

vars == <<pc, query_type, days, output_csv, fs, passwd, query_time, log_files,
          log_buffer, users, records, merged_records, first_merged, baseline, out,
          keys_file,
          could_log, wpc, wrow, wpos, wbuf, prior_log, clock>>

logVars == <<keys_file, could_log, wpc, wrow, wpos, wbuf, prior_log, clock>>

\* what a query and the merger leave alone
otherVars == <<logVars, baseline>>

----------------------------------------------------------------------------
(* Bounds *)

\* largest DAYS argument; today is day MaxDays, so every window starts at
\* day 0 or later
MaxDays == 2
\* longest decoded content of one log file
MaxEntries == 2
\* number of concurrent log_could_access invocations
MaxWriters == 2
\* number of calendar dates a mapping handed to sort_and_merge may use
MaxDates == 4
\* longest password database
MaxAccounts == 2

SecondsPerDay == 86400

----------------------------------------------------------------------------
(* Strings *)

NotFoundSuffix == " (real name not found)"

\* code point of the first character of a token
Ord(c) ==
    CASE c = "\n" -> 10
      [] c = "\r" -> 13
      [] c = NotFoundSuffix -> 32
      [] c = " " -> 32
      [] c = "*" -> 42
      [] c = "," -> 44
      [] c = "-" -> 45
      [] c = "." -> 46
      [] c = "0" -> 48
      [] c = "1" -> 49
      [] c = "2" -> 50
      [] c = "3" -> 51
      [] c = "4" -> 52
      [] c = "5" -> 53
      [] c = "6" -> 54
      [] c = "7" -> 55
      [] c = "8" -> 56
      [] c = "9" -> 57
      [] c = ":" -> 58
      [] c = "A" -> 65
      [] c = "B" -> 66
      [] c = "a" -> 97
      [] c = "b" -> 98
      [] c = "c" -> 99
      [] c = "k" -> 107
      [] c = "w" -> 119
      [] c = "x" -> 120
      [] OTHER -> 127

RECURSIVE StrLess(_, _)
\* s < t for Python str
StrLess(s, t) ==
    IF t = <<>> THEN FALSE
    ELSE IF s = <<>> THEN TRUE
    ELSE IF Ord(Head(s)) # Ord(Head(t)) THEN Ord(Head(s)) < Ord(Head(t))
    ELSE StrLess(Tail(s), Tail(t))

RECURSIVE ListLess(_, _)
\* a < b for Python lists of str
ListLess(a, b) ==
    IF b = <<>> THEN FALSE
    ELSE IF a = <<>> THEN TRUE
    ELSE IF Head(a) # Head(b) THEN StrLess(Head(a), Head(b))
    ELSE ListLess(Tail(a), Tail(b))

\* list.sort() on a list of str: ascending and stable, element i goes after
\* the smaller elements and after the equal ones that precede it
SortStrs(s) ==
    LET pos(i) == 1 + Cardinality({j \in DOMAIN s :
                        \/ StrLess(s[j], s[i])
                        \/ (~StrLess(s[i], s[j]) /\ j < i)})
    IN  [k \in 1..Len(s) |-> s[CHOOSE i \in DOMAIN s : pos(i) = k]]

\* list.sort() on a list of lists of str
SortLists(s) ==
    LET pos(i) == 1 + Cardinality({j \in DOMAIN s :
                        \/ ListLess(s[j], s[i])
                        \/ (~ListLess(s[i], s[j]) /\ j < i)})
    IN  [k \in 1..Len(s) |-> s[CHOOSE i \in DOMAIN s : pos(i) = k]]

Range(s) == {s[i] : i \in DOMAIN s}

\* x in s, for a list
InList(x, s) == \E i \in DOMAIN s : s[i] = x

RECURSIVE Join(_, _)
\* sep.join(parts)
Join(parts, sep) ==
    IF parts = <<>> THEN <<>>
    ELSE IF Len(parts) = 1 THEN parts[1]
    ELSE parts[1] \o <<sep>> \o Join(Tail(parts), sep)

RECURSIVE SplitFirst(_, _)
\* s.split(sep)[0]
SplitFirst(s, sep) ==
    IF s = <<>> THEN <<>>
    ELSE IF Head(s) = sep THEN <<>>
    ELSE <<Head(s)>> \o SplitFirst(Tail(s), sep)

RECURSIVE Split(_, _)
\* s.split(sep)
Split(s, sep) ==
    LET first == SplitFirst(s, sep)
    IN  IF Len(first) = Len(s) THEN <<first>>
        ELSE <<first>> \o Split(SubSeq(s, Len(first) + 2, Len(s)), sep)

----------------------------------------------------------------------------
(* Calendar *)

BaseDate == [year |-> 2024, month |-> 2, day |-> 28]

IsLeap(y) == (y % 4 = 0 /\ y % 100 # 0) \/ y % 400 = 0

DaysInMonth(y, m) ==
    IF m = 2 THEN (IF IsLeap(y) THEN 29 ELSE 28)
    ELSE IF m \in {4, 6, 9, 11} THEN 30 ELSE 31

NextDay(d) ==
    IF d.day < DaysInMonth(d.year, d.month) THEN [d EXCEPT !.day = d.day + 1]
    ELSE IF d.month < 12 THEN [d EXCEPT !.month = d.month + 1, !.day = 1]
    ELSE [year |-> d.year + 1, month |-> 1, day |-> 1]

RECURSIVE Ymd(_)
\* year, month and day of day number n
Ymd(n) == IF n = 0 THEN BaseDate ELSE NextDay(Ymd(n - 1))

Pad2(n) == <<ToString(n \div 10), ToString(n % 10)>>

\* date.isoformat(): YYYY-MM-DD
IsoFormat(n) ==
    LET d == Ymd(n)
    IN  <<ToString(d.year)>> \o <<"-">> \o Pad2(d.month) \o <<"-">> \o Pad2(d.day)

\* date.today()
Today == MaxDays

\* mktime(d.timetuple()): local midnight of date d
Mktime(d) == d * SecondsPerDay

\* date.fromtimestamp(t)
DateFromTimestamp(sec) == sec \div SecondsPerDay

----------------------------------------------------------------------------
(* Name resolution *)

\* pwd.getpwnam(user) raises KeyError
NoSuchUser(db, user) == \A i \in DOMAIN db : db[i].pw_name # user

\* pwd.getpwnam(user): the first entry of that name
Getpwnam(db, user) ==
    db[CHOOSE i \in DOMAIN db :
            /\ db[i].pw_name = user
            /\ \A j \in 1..(i - 1) : db[j].pw_name # user]

NameNotFound(user) == user \o <<NotFoundSuffix>>

\* a slip: the whole gecos field, not split
WholeGecos(password_db_entry) == password_db_entry.pw_gecos

\* pw_gecos.split(",")[0]
RealName(password_db_entry) == SplitFirst(password_db_entry.pw_gecos, ",")

resolve_real_name(db, user) ==
    IF NoSuchUser(db, user) THEN NameNotFound(user)
    ELSE LET real_name == RealName(Getpwnam(db, user))
         IN  IF real_name # <<>> THEN real_name ELSE NameNotFound(user)

----------------------------------------------------------------------------
(* Interval merger *)

\* a slip: the records are left in the order of the dict
InsertionOrder(s) == s

\* sorted(records.values(), key=lambda record_value: record_value["start"])
SortByStart(s) ==
    LET pos(i) == 1 + Cardinality({j \in DOMAIN s :
                        \/ s[j].start < s[i].start
                        \/ (s[j].start = s[i].start /\ j < i)})
    IN  [k \in 1..Len(s) |-> s[CHOOSE i \in DOMAIN s : pos(i) = k]]

\* a slip: any later start continues the interval
IsLaterDay(record, last_record) == record.start > last_record.end

\* record["start"] == last_record["end"] + timedelta(1)
IsNextDay(record, last_record) == record.start = last_record.end + 1

\* a slip: only the number of users is compared
SameUserCount(record, last_record) == Len(record.users) = Len(last_record.users)

\* record["users"] == last_record["users"]
SameUsers(record, last_record) == record.users = last_record.users

\* a slip: a new interval is built as a fresh one-day record from the
\* record's start instead of being the record itself
MergeStepFreshDay(merged, record) ==
    LET fresh == [record EXCEPT !.end = record.start]
    IN  IF merged # <<>>
        THEN LET last_record == merged[Len(merged)]
             IN  IF /\ record.start = last_record.end + 1
                    /\ record.users = last_record.users
                 THEN [merged EXCEPT ![Len(merged)].end = record.start]
                 ELSE Append(merged, fresh)
        ELSE Append(merged, fresh)

\* one pass of the merge loop: merged_records after taking in record
MergeStep(merged, record) ==
    IF merged # <<>>
    THEN LET last_record == merged[Len(merged)]
         IN  IF IsNextDay(record, last_record)
             THEN IF SameUsers(record, last_record)
                  THEN [merged EXCEPT ![Len(merged)].end = record.start]
                  ELSE Append(merged, record)
             ELSE Append(merged, record)
    ELSE Append(merged, record)

RECURSIVE MergeLoop(_, _)
MergeLoop(merged, rest) ==
    IF rest = <<>> THEN merged
    ELSE MergeLoop(MergeStep(merged, Head(rest)), Tail(rest))

\* the records sorted by start, each with its user list sorted
SortedRecords(recs) ==
    LET sorted_records == SortByStart(recs)
    IN  [i \in DOMAIN sorted_records |->
            [sorted_records[i] EXCEPT !.users = SortStrs(@)]]

\* recs: the values of the dict, in insertion order
sort_and_merge(recs) == MergeLoop(<<>>, SortedRecords(recs))

\* The merged list holds the dicts of the mapping themselves: after the call
\* every record's user list is sorted and the first record of a run carries
\* the run's end.
RecordsAfterMerge(recs) ==
    LET merged == sort_and_merge(recs)
    IN  [i \in DOMAIN recs |->
            IF \E m \in DOMAIN merged : merged[m].key = recs[i].key
            THEN merged[CHOOSE m \in DOMAIN merged : merged[m].key = recs[i].key]
            ELSE [recs[i] EXCEPT !.users = SortStrs(@)]]

----------------------------------------------------------------------------
(* File selector *)

RECURSIVE IsPrefix(_, _)
IsPrefix(p, s) ==
    IF p = <<>> THEN TRUE
    ELSE IF s = <<>> THEN FALSE
    ELSE Head(p) = Head(s) /\ IsPrefix(Tail(p), Tail(s))

\* glob.glob("{}*".format(file_path))
Glob(dir, file_path) == {f \in dir : IsPrefix(file_path, f.name)}

\* a boundary slip: path.getmtime(log_file) >= query_time
ModifiedAtOrAfter(f, qt) == f.mtime >= qt

\* path.getmtime(log_file) > query_time
ModifiedAfter(f, qt) == f.mtime > qt

\* log_files.sort(reverse=True), on a set of distinct names
SortReverse(names) ==
    [k \in 1..Cardinality(names) |->
        CHOOSE n \in names : Cardinality({m \in names : StrLess(n, m)}) = k - 1]

compile_logs(dir, file_path, qt) ==
    SortReverse({f.name : f \in {g \in Glob(dir, file_path) : ModifiedAfter(g, qt)}})

FileNamed(dir, name) == CHOOSE f \in dir : f.name = name

RECURSIVE ReadLogs(_, _)
\* the entries of the files of the list, in the order of the list
ReadLogs(dir, names) ==
    IF names = <<>> THEN <<>>
    ELSE FileNamed(dir, Head(names)).content \o ReadLogs(dir, Tail(names))

----------------------------------------------------------------------------
(* Log aggregator *)

\* a boundary slip: entry_time >= query_time
InWindowInclusive(entry, qt) == entry.sec >= qt

\* entry_time > query_time, entry_time = sec + usec * .000001
InWindow(entry, qt) == entry.sec > qt \/ (entry.sec = qt /\ entry.usec > 0)

EntryDate(entry) == DateFromTimestamp(entry.sec)

HasDate(recs, d) == \E i \in DOMAIN recs : recs[i].key = d

IndexOfDate(recs, d) == CHOOSE i \in DOMAIN recs : recs[i].key = d

NewRecord(d, us) == [key |-> d, start |-> d, end |-> d, users |-> us]

RECURSIVE AppendMissing(_, _)
\* for user in new: if user not in list: list.append(user)
AppendMissing(list, new) ==
    IF new = <<>> THEN list
    ELSE AppendMissing(IF InList(Head(new), list) THEN list
                       ELSE Append(list, Head(new)),
                       Tail(new))

\* the body of the loop of query_did_access; entry.user is one string
DidStep(acc, entry, qt) ==
    IF InWindow(entry, qt) /\ entry.user # <<>>
    THEN LET user == entry.user
             d == EntryDate(entry)
         IN  [users |-> AppendMissing(acc.users, <<user>>),
              records |->
                  IF ~HasDate(acc.records, d)
                  THEN Append(acc.records, NewRecord(d, <<user>>))
                  ELSE [acc.records EXCEPT ![IndexOfDate(acc.records, d)].users =
                            AppendMissing(@, <<user>>)]]
    ELSE acc

\* the body of the loop of query_could_access; entry.users is entry[2:]
CouldStep(acc, entry, qt) ==
    IF InWindow(entry, qt)
    THEN LET entry_users == entry.users
             d == EntryDate(entry)
         IN  [users |-> AppendMissing(acc.users, entry_users),
              records |->
                  IF ~HasDate(acc.records, d)
                  THEN Append(acc.records, NewRecord(d, entry_users))
                  ELSE [acc.records EXCEPT ![IndexOfDate(acc.records, d)].users =
                            AppendMissing(@, entry_users)]]
    ELSE acc

RECURSIVE DidLoop(_, _, _)
DidLoop(acc, buffer, qt) ==
    IF buffer = <<>> THEN acc
    ELSE DidLoop(DidStep(acc, Head(buffer), qt), Tail(buffer), qt)

RECURSIVE CouldLoop(_, _, _)
CouldLoop(acc, buffer, qt) ==
    IF buffer = <<>> THEN acc
    ELSE CouldLoop(CouldStep(acc, Head(buffer), qt), Tail(buffer), qt)

Aggregate(type, buffer, qt) ==
    LET empty == [users |-> <<>>, records |-> <<>>]
    IN  IF type = "did" THEN DidLoop(empty, buffer, qt)
        ELSE CouldLoop(empty, buffer, qt)

----------------------------------------------------------------------------
(* Report renderer *)

\* platform.node()
Node == <<"host">>

\* str(datetime.fromtimestamp(t)), t a whole number of seconds
HumanTime(t) ==
    LET secs == t % SecondsPerDay
    IN  IsoFormat(DateFromTimestamp(t)) \o <<" ">> \o Pad2(secs \div 3600)
        \o <<":">> \o Pad2((secs % 3600) \div 60) \o <<":">> \o Pad2(secs % 60)

pluralise(word, count) ==
    IF count = 1
    THEN IF word = "user" THEN <<"1 user">> ELSE <<word>>
    ELSE <<ToString(count), " ", word, "s">>

\* the summary line printed when there are users
SummaryLine(type, no_of_users, d, qt) ==
    <<"\n">> \o pluralise("user", no_of_users)
    \o (IF type = "could" THEN <<" had access to ">> ELSE <<" accessed ">>)
    \o Node \o <<" in the last ">> \o pluralise("day", d)
    \o <<" (since ">> \o HumanTime(qt) \o <<"):">>

\* the only line printed when there are none
NoAccessLine(type, d, qt) ==
    IF type = "could"
    THEN <<"\n", "No users have had access to ">> \o Node \o <<" in the last ">>
         \o pluralise("day", d) \o <<" (since ">> \o HumanTime(qt) \o <<").", "\n">>
    ELSE <<"\n">> \o Node \o <<" has not been accessed in the last ">>
         \o pluralise("day", d) \o <<" (since ">> \o HumanTime(qt) \o <<").", "\n">>

Period(record) ==
    IF record.start = record.end
    THEN <<"on ">> \o IsoFormat(record.start)
    ELSE <<"between ">> \o IsoFormat(record.start) \o <<" and ">>
         \o IsoFormat(record.end)

\* the sub-header of one merged record
PeriodLine(record) ==
    <<"\n">> \o pluralise("user", Len(record.users)) \o <<" ">> \o Period(record)
    \o <<":">>

\* sorted_names of one merged record
SortedNames(db, record) ==
    SortStrs([i \in DOMAIN record.users |-> resolve_real_name(db, record.users[i])])

RECURSIVE RecordLines(_, _)
RecordLines(db, merged) ==
    IF merged = <<>> THEN <<>>
    ELSE <<PeriodLine(Head(merged))>> \o SortedNames(db, Head(merged))
         \o RecordLines(db, Tail(merged))

\* what output_text_results prints, one element per print call
TextLines(type, no_of_users, recs, d, qt, db) ==
    IF no_of_users # 0
    THEN <<SummaryLine(type, no_of_users, d, qt)>>
         \o RecordLines(db, sort_and_merge(recs)) \o << <<>> >>
    ELSE <<NoAccessLine(type, d, qt)>>

\* an off-by-one slip: timedelta(day), the window's first column is the
\* date of query_time itself
CsvDatesFromQueryDate(d, qt) == [i \in 1..d |-> DateFromTimestamp(qt) + i - 1]

\* date.fromtimestamp(query_time) + timedelta(day + 1) for day in range(days)
CsvDates(d, qt) == [i \in 1..d |-> DateFromTimestamp(qt) + i]

Marker == <<"*">>

\* day in records and user in records[day]["users"]
Present(recs, day, user) ==
    HasDate(recs, day) /\ InList(user, recs[IndexOfDate(recs, day)].users)

\* one user_record, its first field resolved
UserRecord(db, user, recs, dates) ==
    <<resolve_real_name(db, user)>>
    \o [i \in DOMAIN dates |-> IF Present(recs, dates[i], user) THEN Marker ELSE <<>>]

HeaderLine(dates) ==
    <<",">> \o Join([i \in DOMAIN dates |-> IsoFormat(dates[i])], ",")

\* what output_csv_results prints, one element per print call
CsvLines(us, recs, d, qt, db) ==
    LET dates == CsvDates(d, qt)
        user_records == SortLists([i \in DOMAIN us |->
                                      UserRecord(db, us[i], recs, dates)])
    IN  <<HeaderLine(dates)>>
        \o [i \in DOMAIN user_records |-> Join(user_records[i], ",")]

----------------------------------------------------------------------------
(* The queries *)

\* path.join(LOG_PATH, "wtmp") and the --path argument
FilePath(type) == IF type = "did" THEN <<"w">> ELSE <<"c">>

\* mktime((date.today() - timedelta(days)).timetuple())
QueryTime(d) == Mktime(Today - d)

\* the body shared by the two queries, up to the call of the renderer
RunQuery(type) ==
    LET qt == QueryTime(days)
        files == compile_logs(fs, FilePath(type), qt)
        buffer == ReadLogs(fs, files)
        agg == Aggregate(type, buffer, qt)
    IN  /\ query_time' = qt
        /\ log_files' = files
        /\ log_buffer' = buffer
        /\ users' = agg.users
        /\ records' = agg.records

query_did_access ==
    /\ pc = "start"
    /\ query_type = "did"
    /\ RunQuery("did")
    /\ pc' = "output"
    /\ UNCHANGED <<query_type, days, output_csv, fs, passwd, merged_records,
                   first_merged, out>>
    /\ UNCHANGED otherVars

query_could_access ==
    /\ pc = "start"
    /\ query_type = "could"
    /\ RunQuery("could")
    /\ pc' = "output"
    /\ UNCHANGED <<query_type, days, output_csv, fs, passwd, merged_records,
                   first_merged, out>>
    /\ UNCHANGED otherVars

output_text_results ==
    /\ pc = "output"
    /\ output_csv' = FALSE
    /\ out' = TextLines(query_type, Len(users), records, days, query_time, passwd)
    /\ merged_records' = IF Len(users) # 0 THEN sort_and_merge(records) ELSE <<>>
    /\ records' = IF Len(users) # 0 THEN RecordsAfterMerge(records) ELSE records
    /\ pc' = "done"
    /\ UNCHANGED <<query_type, days, fs, passwd, query_time, log_files,
                   log_buffer, users, first_merged>>
    /\ UNCHANGED otherVars

output_csv_results ==
    /\ pc = "output"
    /\ output_csv' = TRUE
    /\ out' = CsvLines(users, records, days, query_time, passwd)
    /\ pc' = "done"
    /\ UNCHANGED <<query_type, days, fs, passwd, query_time, log_files,
                   log_buffer, users, records, merged_records, first_merged>>
    /\ UNCHANGED otherVars

----------------------------------------------------------------------------
(* Inputs *)

UserNames == {<<"a">>, <<"b">>}

\* the user lists of snapshot rows: distinct account names, possibly none
RowUsers ==
    {<<>>} \cup {<<u>> : u \in UserNames}
    \cup {p \in UserNames \X UserNames : p[1] # p[2]}

Dates == 0..Today

\* the records utmp.read yields: sec, usec and a user field that may be empty
DidEntries == [sec : {Mktime(d) : d \in Dates}, usec : {0, 1},
               user : UserNames \cup {<<>>}]

\* the rows csv.reader yields: float(entry[0]) and entry[2:]
CouldRows == [sec : {Mktime(d) : d \in Dates}, usec : {0, 1}, users : RowUsers]

SeqsUpTo(S, n) == UNION {[1..k -> S] : k \in 0..n}

\* the modification times of files: midnight of every date, and the second
\* after today's midnight
Mtimes == {Mktime(d) : d \in Dates} \cup {Mktime(Today) + 1}

\* a file is modified whenever an entry is written to it: none of its
\* entries is later than its modification time
MtimeOk(f) ==
    \A i \in DOMAIN f.content :
        \/ f.content[i].sec < f.mtime
        \/ (f.content[i].sec = f.mtime /\ f.content[i].usec = 0)

LogFiles(names, entries, n) ==
    {f \in [name : names, mtime : Mtimes, content : SeqsUpTo(entries, n)] :
        MtimeOk(f)}

EntriesOf(type) == IF type = "did" THEN DidEntries ELSE CouldRows

Gecos == {<<>>, <<"A">>, <<"B", ",", "x">>, <<",", "x">>}

PasswdEntries == [pw_name : UserNames, pw_gecos : Gecos]

\* the database the queries of Spec run against: "a" has a real name, "b" an
\* empty first gecos field
QueryDb ==
    <<[pw_name |-> <<"a">>, pw_gecos |-> <<"B", ",", "x">>],
      [pw_name |-> <<"b">>, pw_gecos |-> <<",", "x">>]>>

Writers == 1..MaxWriters

\* users = [timestamp, human_timestamp] of an invocation that has not run
NoRow == [timestamp |-> [sec |-> 0, usec |-> 0], users |-> <<>>]

LogIdle ==
    /\ keys_file = <<>>
    /\ could_log = <<>>
    /\ wpc = [w \in Writers |-> "idle"]
    /\ wrow = [w \in Writers |-> NoRow]
    /\ wpos = [w \in Writers |-> 0]
    /\ wbuf = [w \in Writers |-> <<>>]
    /\ prior_log = <<>>
    /\ clock = 0

QueryStart ==
    /\ pc = "start"
    /\ query_type \in {"did", "could"}
    /\ days \in 1..MaxDays
    /\ output_csv = FALSE
    /\ query_time = 0
    /\ log_files = <<>>
    /\ log_buffer = <<>>
    /\ users = <<>>
    /\ records = <<>>
    /\ merged_records = <<>>
    /\ first_merged = <<>>
    /\ baseline = <<>>
    /\ out = <<>>

\* one log file under the queried path
Init ==
    /\ QueryStart
    /\ passwd = QueryDb
    /\ \E f \in LogFiles({FilePath(query_type)}, EntriesOf(query_type), MaxEntries) :
           fs = {f}
    /\ LogIdle

Next ==
    \/ query_did_access
    \/ query_could_access
    \/ output_text_results
    \/ output_csv_results

Spec == Init /\ [][Next]_vars

----------------------------------------------------------------------------
(* Claims about the aggregator *)

Aggregated == pc \in {"output", "done"}

\* the non-empty users an entry names
UsersOf(entry) ==
    IF query_type = "did" THEN {entry.user} \ {<<>>} ELSE Range(entry.users) \ {<<>>}

\* the entry's time is query_time or earlier
AtOrBefore(entry, t) == entry.sec < t \/ (entry.sec = t /\ entry.usec = 0)

\* the entries of the decoded input that lie after query_time
Later == {i \in DOMAIN log_buffer : ~AtOrBefore(log_buffer[i], query_time)}

DateOf(entry) == entry.sec \div SecondsPerDay

\* C1: in both queries an entry at query_time or earlier contributes nothing
\* to the distinct-user list or to any per-date record (every listed user and
\* every record, with each of its users, comes from an entry after
\* query_time), and an entry after query_time with a non-empty user is in the
\* distinct-user list and in the record of its calendar date.
C1_WindowBoundary ==
    Aggregated =>
        /\ \A u \in Range(users) :
               \E i \in Later : u \in UsersOf(log_buffer[i])
        /\ \A r \in DOMAIN records :
               /\ \E i \in Later : DateOf(log_buffer[i]) = records[r].key
               /\ \A u \in Range(records[r].users) :
                      \E i \in Later :
                          /\ DateOf(log_buffer[i]) = records[r].key
                          /\ u \in UsersOf(log_buffer[i])
        /\ \A i \in Later : \A u \in UsersOf(log_buffer[i]) :
               /\ InList(u, users)
               /\ \E r \in DOMAIN records :
                      /\ records[r].key = DateOf(log_buffer[i])
                      /\ InList(u, records[r].users)

\* an entry exactly at query_time was left out and one a microsecond later,
\* on the same date, was taken in
C1_Witness ==
    /\ pc = "done"
    /\ \E i, j \in DOMAIN log_buffer :
           /\ log_buffer[i].sec = query_time /\ log_buffer[i].usec = 0
           /\ log_buffer[j].sec = query_time /\ log_buffer[j].usec = 1
           /\ UsersOf(log_buffer[i]) # {}
           /\ UsersOf(log_buffer[i]) \cap Range(users) = {}
           /\ UsersOf(log_buffer[j]) # {}
           /\ UsersOf(log_buffer[j]) \subseteq Range(users)

----------------------------------------------------------------------------
(* sort_and_merge on its own *)

MergeDates == 0..(MaxDates - 1)

\* the keys of a dict of k dates, in their order of insertion
DateOrders(k) ==
    {o \in [1..k -> MergeDates] : \A i, j \in 1..k : i # j => o[i] # o[j]}

\* the dicts of single-day records the aggregators build: the dates in any
\* order of insertion, each with a list of distinct users
InitMerge ==
    /\ pc = "merge"
    /\ \E k \in 0..MaxDates : \E o \in DateOrders(k) : \E us \in [1..k -> RowUsers] :
           records = [i \in 1..k |-> NewRecord(o[i], us[i])]
    /\ query_type = "could"
    /\ days = 1
    /\ output_csv = FALSE
    /\ fs = {}
    /\ passwd = <<>>
    /\ query_time = 0
    /\ log_files = <<>>
    /\ log_buffer = <<>>
    /\ users = <<>>
    /\ merged_records = <<>>
    /\ first_merged = <<>>
    /\ baseline = <<>>
    /\ out = <<>>
    /\ LogIdle

\* merged_records = sort_and_merge(records)
Merge ==
    /\ pc = "merge"
    /\ merged_records' = sort_and_merge(records)
    /\ records' = RecordsAfterMerge(records)
    /\ pc' = "merged"
    /\ UNCHANGED <<query_type, days, output_csv, fs, passwd, query_time,
                   log_files, log_buffer, users, first_merged, out>>
    /\ UNCHANGED otherVars

\* the returned intervals handed back, each as one record of a new mapping
Remerge ==
    /\ pc = "merged"
    /\ first_merged' = merged_records
    /\ merged_records' = sort_and_merge(merged_records)
    /\ records' = RecordsAfterMerge(merged_records)
    /\ pc' = "remerged"
    /\ UNCHANGED <<query_type, days, output_csv, fs, passwd, query_time,
                   log_files, log_buffer, users, out>>
    /\ UNCHANGED otherVars

NextMerge == Merge \/ Remerge

SpecMerge == InitMerge /\ [][NextMerge]_vars

\* the dates of the mapping and the user set of each
InputDates == {records[i].key : i \in DOMAIN records}

InputUsers(d) == Range(records[IndexOfDate(records, d)].users)

\* d opens a run: no record for the day before, or one with other users
OpensRun(d) == (d - 1) \notin InputDates \/ InputUsers(d - 1) # InputUsers(d)

\* d..e is a run: consecutive dates with records of identical user sets
IsRun(d, e) == \A x \in d..e : x \in InputDates /\ InputUsers(x) = InputUsers(d)

\* the last date of the maximal run that d opens
RunEnd(d) ==
    CHOOSE e \in InputDates :
        /\ e >= d
        /\ IsRun(d, e)
        /\ ((e + 1) \notin InputDates \/ InputUsers(e + 1) # InputUsers(d))

RunStarts == {d \in InputDates : OpensRun(d)}

IsSortedStrs(s) == \A i \in 1..(Len(s) - 1) : ~StrLess(s[i + 1], s[i])

\* C2: sort_and_merge returns exactly the maximal runs of consecutive
\* calendar days whose user sets are identical, in order of date: one
\* interval per run, from the run's first date to its last, with the run's
\* users as a sorted list (a record joins the current interval iff it is the
\* next day and has the same users).
C2_MaximalRuns ==
    pc = "merged" =>
        /\ Len(merged_records) = Cardinality(RunStarts)
        /\ \A d \in RunStarts : \E m \in DOMAIN merged_records :
               /\ merged_records[m].start = d
               /\ merged_records[m].end = RunEnd(d)
               /\ Range(merged_records[m].users) = InputUsers(d)
               /\ Len(merged_records[m].users) = Cardinality(InputUsers(d))
               /\ IsSortedStrs(merged_records[m].users)
        /\ \A m \in 1..(Len(merged_records) - 1) :
               merged_records[m].start < merged_records[m + 1].start

\* three consecutive days {a,b}, {a,b}, {a} gave [day1,day2] -> {a,b} and
\* [day3,day3] -> {a}
C2_Witness ==
    /\ pc = "merged"
    /\ InputDates = {0, 1, 2}
    /\ InputUsers(0) = {<<"a">>, <<"b">>}
    /\ InputUsers(1) = {<<"a">>, <<"b">>}
    /\ InputUsers(2) = {<<"a">>}
    /\ Len(merged_records) = 2
    /\ merged_records[1].start = 0 /\ merged_records[1].end = 1
    /\ merged_records[1].users = << <<"a">>, <<"b">> >>
    /\ merged_records[2].start = 2 /\ merged_records[2].end = 2
    /\ merged_records[2].users = << <<"a">> >>

\* C3: sort_and_merge never bridges a gap: no returned interval contains a
\* date for which the input had no record, and two records with a date
\* without record between them are never in the same interval.
C3_NoGapBridged ==
    pc = "merged" =>
        /\ \A m \in DOMAIN merged_records :
               \A d \in merged_records[m].start..merged_records[m].end :
                   d \in InputDates
        /\ \A d1, d2 \in InputDates :
               (\E x \in MergeDates : d1 < x /\ x < d2 /\ x \notin InputDates)
               => ~\E m \in DOMAIN merged_records :
                      /\ merged_records[m].start <= d1
                      /\ d2 <= merged_records[m].end

\* days 0 and 2 with the same users and no record for day 1 gave two
\* one-day intervals
C3_Witness ==
    /\ pc = "merged"
    /\ InputDates = {0, 2}
    /\ InputUsers(0) = InputUsers(2)
    /\ InputUsers(0) # {}
    /\ Len(merged_records) = 2
    /\ merged_records[1].start = 0 /\ merged_records[1].end = 0
    /\ merged_records[2].start = 2 /\ merged_records[2].end = 2

Interval(r) == [start |-> r.start, end |-> r.end, users |-> r.users]

\* C7: merging is idempotent: the interval list returned by sort_and_merge,
\* fed back with each interval as one record, comes back with the same
\* starts, ends and user lists.
C7_Idempotent ==
    pc = "remerged" =>
        /\ Len(merged_records) = Len(first_merged)
        /\ \A m \in DOMAIN merged_records :
               Interval(merged_records[m]) = Interval(first_merged[m])

\* a list with an interval of several days and a neighbour on the next day
\* was fed back
C7_Witness ==
    /\ pc = "remerged"
    /\ \E m \in 1..(Len(first_merged) - 1) :
           /\ first_merged[m].start < first_merged[m].end
           /\ first_merged[m + 1].start = first_merged[m].end + 1
    /\ merged_records = first_merged

----------------------------------------------------------------------------
(* Claims about the CSV renderer *)

CsvDone == pc = "done" /\ output_csv

\* the i-th of the `days` dates that end today
WindowDate(i) == Today - days + i

\* the cells of a printed line
Cells(line) == Split(line, ",")

\* u is in the record of date d
InRecordOf(u, d) ==
    \E r \in DOMAIN records : records[r].key = d /\ u \in Range(records[r].users)

\* the line is the row of user u: the resolved name, then per window date
\* the marker iff u is in that date's record
IsRowOf(line, u) ==
    LET cells == Cells(line)
    IN  /\ Len(cells) = days + 1
        /\ cells[1] = resolve_real_name(passwd, u)
        /\ \A i \in 1..days : (cells[i + 1] = <<"*">>) <=> InRecordOf(u, WindowDate(i))
        /\ \A i \in 1..days : cells[i + 1] \in {<<"*">>, <<>>}

Bijections(n) == {f \in [1..n -> 1..n] : \A i, j \in 1..n : i # j => f[i] # f[j]}

\* C4: output_csv_results prints a header of exactly `days` consecutive ISO
\* dates the last of which is today (query_time being midnight of today
\* minus `days`), whatever dates had activity, and one row per user in which
\* the cell of a date holds the marker iff the user is in that date's record.
C4_CsvMatrix ==
    CsvDone =>
        /\ query_time = (Today - days) * SecondsPerDay
        /\ Len(out) = 1 + Len(users)
        /\ LET header == Cells(out[1])
           IN  /\ Len(header) = days + 1
               /\ header[1] = <<>>
               /\ \A i \in 1..days : header[i + 1] = IsoFormat(WindowDate(i))
               /\ header[days + 1] = IsoFormat(Today)
        /\ \E f \in Bijections(Len(users)) :
               \A k \in 1..Len(users) : IsRowOf(out[k + 1], users[f[k]])

\* the number of marked cells of a printed row
MarkedCells(line) ==
    Cardinality({i \in 2..Len(Cells(line)) : Cells(line)[i] = <<"*">>})

\* a two-day window with activity on one date only: the header still has two
\* dates, 2024-02-29 and 2024-03-01, and a user's row has one marked cell
C4_Witness ==
    /\ CsvDone
    /\ days = 2
    /\ Today = 2
    /\ Len(records) = 1
    /\ out[1] = <<",", "2024", "-", "0", "2", "-", "2", "9",
                  ",", "2024", "-", "0", "3", "-", "0", "1">>
    /\ Len(out) >= 2
    /\ MarkedCells(out[2]) = 1

----------------------------------------------------------------------------
(* Claims about the empty window *)

\* the entry names no user at all
NoUser(entry) ==
    IF query_type = "did" THEN entry.user = <<>> ELSE entry.users = <<>>

\* every entry is at query_time or earlier, or names no user
NoEntryQualifies ==
    \A i \in DOMAIN log_buffer :
        AtOrBefore(log_buffer[i], query_time) \/ NoUser(log_buffer[i])

\* the line is the sub-header of an interval
IsPeriodLine(line) ==
    \E i \in DOMAIN line : line[i] \in {"on ", "between "}

\* the line is the "no access" sentence
IsNoAccessLine(line) ==
    \E i \in DOMAIN line :
        line[i] \in {"No users have had access to ", " has not been accessed in the last "}

\* C5: when no entry qualifies, the text mode prints only the "no access"
\* sentence and no interval sub-header, merging the records yields zero
\* intervals, and the CSV mode prints the header row and no data row.
C5_EmptyWindow ==
    (pc = "done" /\ NoEntryQualifies) =>
        /\ Len(sort_and_merge(records)) = 0
        /\ ~output_csv =>
               /\ Len(out) = 1
               /\ IsNoAccessLine(out[1])
               /\ \A i \in DOMAIN out : ~IsPeriodLine(out[i])
        /\ output_csv =>
               /\ Len(out) = 1
               /\ Len(Cells(out[1])) = days + 1

----------------------------------------------------------------------------
(* Name resolution under every password database *)

PasswdDbs == SeqsUpTo(PasswdEntries, MaxAccounts)

\* entries of today, all after query_time
TodayEntries(type) ==
    {e \in EntriesOf(type) : e.sec = Mktime(Today) /\ e.usec = 1}

InitNames ==
    /\ QueryStart
    /\ passwd \in PasswdDbs
    /\ \E content \in SeqsUpTo(TodayEntries(query_type), MaxEntries) :
           fs = {[name |-> FilePath(query_type), mtime |-> Mktime(Today) + 1,
                  content |-> content]}
    /\ LogIdle

SpecNames == InitNames /\ [][Next]_vars

AllUserFields == UserNames \cup {<<>>}

HasAccount(u) == \E i \in DOMAIN passwd : passwd[i].pw_name = u

\* the account the database returns for u: the first of that name
AccountOf(u) ==
    passwd[CHOOSE i \in DOMAIN passwd :
               /\ passwd[i].pw_name = u
               /\ \A j \in DOMAIN passwd : passwd[j].pw_name = u => i <= j]

\* the first comma-separated segment of g: up to its first comma, or all
FirstSegment(g) ==
    LET commas == {i \in DOMAIN g : g[i] = ","}
    IN  IF commas = {} THEN g
        ELSE SubSeq(g, 1, (CHOOSE i \in commas : \A j \in commas : i <= j) - 1)

\* the display name the claim gives user u
DisplayName(u) ==
    IF HasAccount(u) /\ FirstSegment(AccountOf(u).pw_gecos) # <<>>
    THEN FirstSegment(AccountOf(u).pw_gecos)
    ELSE u \o <<" (real name not found)">>

\* the lines of the text report that are names: not the summary, not a
\* sub-header, not the closing empty line
NameLines == {i \in 2..(Len(out) - 1) : Head(out[i]) # "\n"}

\* how often name n is to be printed: once per interval user it belongs to
TimesDue(n) ==
    Cardinality({p \in (DOMAIN merged_records) \X (1..Len(users)) :
        /\ p[2] \in DOMAIN merged_records[p[1]].users
        /\ DisplayName(merged_records[p[1]].users[p[2]]) = n})

\* C6: name resolution never fails: for every user it gives the first
\* comma-separated segment of the account's gecos field when the account
\* exists and that segment is non-empty, and "<user> (real name not found)"
\* in every other case; and that is what the text renderer prints for each
\* interval user and what the CSV renderer prints as each user's row name.
C6_NameFallback ==
    /\ \A u \in AllUserFields : resolve_real_name(passwd, u) = DisplayName(u)
    /\ (pc = "done" /\ ~output_csv /\ Len(users) # 0) =>
           /\ \A i \in NameLines : \E u \in Range(users) : out[i] = DisplayName(u)
           /\ \A u \in Range(users) :
                  Cardinality({i \in NameLines : out[i] = DisplayName(u)})
                      = TimesDue(DisplayName(u))
    /\ (pc = "done" /\ output_csv) =>
           /\ Len(out) = 1 + Len(users)
           /\ \E f \in Bijections(Len(users)) :
                  \A k \in 1..Len(users) :
                      Cells(out[k + 1])[1] = DisplayName(users[f[k]])

\* "a" has no account and "b" has one with a real name before a comma: the
\* text report printed the placeholder for "a" and the real name for "b"
C6_Witness ==
    /\ pc = "done"
    /\ ~output_csv
    /\ ~HasAccount(<<"a">>)
    /\ HasAccount(<<"b">>)
    /\ AccountOf(<<"b">>).pw_gecos = <<"B", ",", "x">>
    /\ \E i, j \in NameLines :
           /\ out[i] = <<"a", " (real name not found)">>
           /\ out[j] = <<"B">>

----------------------------------------------------------------------------
(* File selection over a directory of rotated files *)

\* the names in the directory: the log, a rotated log, and another file
NamesFor(type) == {FilePath(type), FilePath(type) \o <<".", "1">>, <<"x">>}

\* entries of user "a" at any instant
EntriesOfA(type) ==
    {e \in EntriesOf(type) :
        IF type = "did" THEN e.user = <<"a">> ELSE e.users = << <<"a">> >>}

\* the files a directory may hold: empty or with one entry
FilesFor(type) == LogFiles(NamesFor(type), EntriesOfA(type), 1)

\* no file of that name, or one
OptFile(type, name) ==
    {{}} \cup {{f} : f \in {g \in FilesFor(type) : g.name = name}}

\* the directories: at most one file under each name
Dirs(type) ==
    {a \cup b \cup c : a \in OptFile(type, FilePath(type)),
                       b \in OptFile(type, FilePath(type) \o <<".", "1">>),
                       c \in OptFile(type, <<"x">>)}

InitFiles ==
    /\ QueryStart
    /\ passwd = QueryDb
    /\ fs \in Dirs(query_type)
    /\ LogIdle

\* a file appears in the directory and the query is run again
AddFile ==
    /\ pc = "output"
    /\ baseline = <<>>
    /\ \E f \in FilesFor(query_type) :
           /\ \A g \in fs : g.name # f.name
           /\ fs' = fs \cup {f}
           /\ baseline' = <<[added |-> f, log_files |-> log_files,
                             users |-> users, records |-> records]>>
    /\ pc' = "start"
    /\ query_time' = 0
    /\ log_files' = <<>>
    /\ log_buffer' = <<>>
    /\ users' = <<>>
    /\ records' = <<>>
    /\ UNCHANGED <<query_type, days, output_csv, passwd, merged_records,
                   first_merged, out>>
    /\ UNCHANGED logVars

NextFiles == query_did_access \/ query_could_access \/ AddFile

SpecFiles == InitFiles /\ [][NextFiles]_vars

\* the files the claim selects: matching the prefix, modified strictly after
\* query_time
Relevant ==
    {f.name : f \in {g \in fs : /\ IsPrefix(FilePath(query_type), g.name)
                                /\ ~(g.mtime <= query_time)}}

\* C8: compile_logs returns exactly the files that match the prefix and were
\* modified strictly after query_time, in reverse lexicographic order; and a
\* file added with a modification time at or below query_time changes
\* neither the selected list nor the users and records of the aggregator.
C8_FileSelection ==
    pc = "output" =>
        /\ Range(log_files) = Relevant
        /\ Len(log_files) = Cardinality(Relevant)
        /\ \A i, j \in DOMAIN log_files : i < j => StrLess(log_files[j], log_files[i])
        /\ (baseline # <<>> /\ baseline[1].added.mtime <= query_time) =>
               /\ log_files = baseline[1].log_files
               /\ users = baseline[1].users
               /\ records = baseline[1].records

\* a rotated log with an entry, last modified exactly at query_time, was
\* added next to a selected log with an entry in the window
C8_Witness ==
    /\ pc = "output"
    /\ baseline # <<>>
    /\ IsPrefix(FilePath(query_type), baseline[1].added.name)
    /\ baseline[1].added.mtime = query_time
    /\ baseline[1].added.content # <<>>
    /\ Len(log_files) = 1
    /\ users # <<>>
    /\ users = baseline[1].users

----------------------------------------------------------------------------
(* Snapshot logger: log_could_access *)

\* the six digits of a microsecond fraction
Digits6(n) == [i \in 1..6 |-> ToString((n \div (10 ^ (6 - i))) % 10)]

RECURSIVE StripZeros(_)
StripZeros(ds) ==
    IF ds # <<>> /\ ds[Len(ds)] = "0" THEN StripZeros(SubSeq(ds, 1, Len(ds) - 1))
    ELSE ds

\* repr(timestamp), the text csv.writer writes for a float
FloatRepr(t) ==
    <<ToString(t.sec), ".">>
    \o (IF t.usec = 0 THEN <<"0">> ELSE StripZeros(Digits6(t.usec)))

\* str(datetime.fromtimestamp(timestamp))
HumanTimestamp(t) ==
    HumanTime(t.sec) \o (IF t.usec = 0 THEN <<>> ELSE <<".">> \o Digits6(t.usec))

\* a slip: the whole line taken for the user
WholeLine(key) == key

\* parts = key.split(":"); user = parts[0]
KeyUser(key) == SplitFirst(key, ":")

RECURSIVE UsersWithKeys(_)
\* the loop over the lines of KEYS_FILE
UsersWithKeys(keys) ==
    IF keys = <<>> THEN <<>>
    ELSE LET before == UsersWithKeys(SubSeq(keys, 1, Len(keys) - 1))
             user == KeyUser(keys[Len(keys)])
         IN  IF InList(user, before) THEN before ELSE Append(before, user)

RECURSIVE LogEntry(_, _)
\* the loop over pwd.getpwall(): the names appended to users; a name never
\* equals the two timestamps the list starts with
LogEntry(db, users_with_keys) ==
    IF db = <<>> THEN <<>>
    ELSE LET before == LogEntry(SubSeq(db, 1, Len(db) - 1), users_with_keys)
             user == db[Len(db)].pw_name
         IN  IF InList(user, users_with_keys) /\ ~InList(user, before)
             THEN Append(before, user)
             ELSE before

\* csv.writer, QUOTE_MINIMAL: a field holding the delimiter, the quote
\* character or a line break is quoted
NeedsQuotes(f) == \E i \in DOMAIN f : f[i] \in {",", "\"", "\r", "\n"}

RECURSIVE DoubleQuotes(_)
DoubleQuotes(f) ==
    IF f = <<>> THEN <<>>
    ELSE (IF Head(f) = "\"" THEN <<"\"", "\"">> ELSE <<Head(f)>>)
         \o DoubleQuotes(Tail(f))

CsvField(f) ==
    IF NeedsQuotes(f) THEN <<"\"">> \o DoubleQuotes(f) \o <<"\"">> ELSE f

\* the text of writer.writerow(fields): the line terminator is "\r\n"
CsvRow(fields) ==
    Join([i \in DOMAIN fields |-> CsvField(fields[i])], ",") \o <<"\r\n">>

\* the fields of the list users
RowFields(row) ==
    <<FloatRepr(row.timestamp), HumanTimestamp(row.timestamp)>> \o row.users

\* a write at the offset the file object had when it was opened
WriteAtOffset(file, pos, data) ==
    SubSeq(file, 1, pos) \o data \o SubSeq(file, pos + Len(data) + 1, Len(file))

\* a write to a descriptor opened with O_APPEND (mode "a"): at the end of the
\* file, wherever the descriptor's offset is
AppendWrite(file, pos, data) == file \o data

\* what the logger leaves alone
queryVars == <<pc, query_type, days, output_csv, fs, passwd, query_time,
               log_files, log_buffer, users, records, merged_records,
               first_merged, baseline, out>>

\* timestamp = time() ... the loop over pwd.getpwall()
log_compile(w) ==
    /\ wpc[w] = "start"
    /\ wrow' = [wrow EXCEPT ![w] =
                   [timestamp |-> [sec |-> Mktime(Today), usec |-> clock],
                    users |-> LogEntry(passwd, UsersWithKeys(keys_file))]]
    /\ clock' \in {clock, clock + 1}
    /\ wpc' = [wpc EXCEPT ![w] = "open"]
    /\ UNCHANGED <<keys_file, could_log, wpos, wbuf, prior_log>>
    /\ UNCHANGED queryVars

\* open(file_path, "a", newline=""): the file is created if absent, and the
\* offset is its length
log_open(w) ==
    /\ wpc[w] = "open"
    /\ wpos' = [wpos EXCEPT ![w] = Len(could_log)]
    /\ wpc' = [wpc EXCEPT ![w] = "write"]
    /\ UNCHANGED <<keys_file, could_log, wrow, wbuf, prior_log, clock>>
    /\ UNCHANGED queryVars

\* writer.writerow(users): one write call on the buffered file object
log_writerow(w) ==
    /\ wpc[w] = "write"
    /\ wbuf' = [wbuf EXCEPT ![w] = wbuf[w] \o CsvRow(RowFields(wrow[w]))]
    /\ wpc' = [wpc EXCEPT ![w] = "close"]
    /\ UNCHANGED <<keys_file, could_log, wrow, wpos, prior_log, clock>>
    /\ UNCHANGED queryVars

\* leaving the with block: the buffer is flushed in one write, and the file
\* closed
log_close(w) ==
    /\ wpc[w] = "close"
    /\ could_log' = AppendWrite(could_log, wpos[w], wbuf[w])
    /\ wbuf' = [wbuf EXCEPT ![w] = <<>>]
    /\ wpc' = [wpc EXCEPT ![w] = "done"]
    /\ UNCHANGED <<keys_file, wrow, wpos, prior_log, clock>>
    /\ UNCHANGED queryVars

\* the lines of KEYS_FILE: a key of "a", a key of "b", and a line without a
\* colon
KeyLines ==
    {<<"a", ":", "k", "\n">>, <<"b", ":", "k", "\n">>, <<"a", "\n">>}

\* the databases pwd.getpwall() lists
LogDbs == SeqsUpTo(Range(QueryDb), MaxAccounts)

\* the log before the run: absent or empty, or one row of an earlier run
PriorLogs ==
    {<<>>,
     CsvRow(RowFields([timestamp |-> [sec |-> Mktime(0), usec |-> 0],
                       users |-> << <<"a">> >>]))}

\* no query runs
QueryIdle ==
    /\ pc = "done"
    /\ query_type = "could"
    /\ days = 1
    /\ output_csv = FALSE
    /\ fs = {}
    /\ query_time = 0
    /\ log_files = <<>>
    /\ log_buffer = <<>>
    /\ users = <<>>
    /\ records = <<>>
    /\ merged_records = <<>>
    /\ first_merged = <<>>
    /\ baseline = <<>>
    /\ out = <<>>

\* the invocations of running are about to start, over some key-holder file
\* and some log
LogStart(running) ==
    /\ keys_file \in SeqsUpTo(KeyLines, MaxAccounts)
    /\ could_log \in PriorLogs
    /\ prior_log = could_log
    /\ wpc = [w \in Writers |-> IF w \in running THEN "start" ELSE "idle"]
    /\ wrow = [w \in Writers |-> NoRow]
    /\ wpos = [w \in Writers |-> 0]
    /\ wbuf = [w \in Writers |-> <<>>]
    /\ clock = 0

\* concurrent invocations, one per writer
InitLog ==
    /\ QueryIdle
    /\ passwd = QueryDb
    /\ LogStart(Writers)

\* one invocation, over any account database
InitRow ==
    /\ QueryIdle
    /\ passwd \in LogDbs
    /\ LogStart({1})

NextLog ==
    \/ \E w \in Writers : log_compile(w)
    \/ \E w \in Writers : log_open(w)
    \/ \E w \in Writers : log_writerow(w)
    \/ \E w \in Writers : log_close(w)

SpecLog == InitLog /\ [][NextLog]_vars

SpecRow == InitRow /\ [][NextLog]_vars

----------------------------------------------------------------------------
(* Claims about the snapshot logger *)

\* the invocations that have closed the log
Closed == {w \in Writers : wpc[w] = "done"}

\* the orders in which the invocations of S may have written
Orderings(S) ==
    {f \in [1..Cardinality(S) -> S] :
        \A i, j \in 1..Cardinality(S) : f[i] = f[j] => i = j}

RECURSIVE RowsText(_)
\* the complete rows of the invocations of order, one after the other
RowsText(order) ==
    IF order = <<>> THEN <<>>
    ELSE CsvRow(RowFields(wrow[Head(order)])) \o RowsText(Tail(order))

\* C9: whatever the interleaving of concurrent invocations of
\* log_could_access, the log holds what it held before, unchanged, followed
\* by exactly one complete row for each invocation that has written, whole
\* and unmixed, in some order: no row is split, overwritten or lost.
C9_AppendsIntact ==
    \E order \in Orderings(Closed) : could_log = prior_log \o RowsText(order)

\* two invocations opened the log at the same length, before either wrote,
\* and both have written rows with a user
C9_Witness ==
    /\ Closed = Writers
    /\ prior_log # <<>>
    /\ \E v, w \in Writers :
           /\ v # w
           /\ wpos[v] = wpos[w]
           /\ wrow[v].users # <<>>

\* the rows of a log: the texts before each line terminator
Rows(file) ==
    LET parts == Split(file, "\r\n")
    IN  SubSeq(parts, 1, Len(parts) - 1)

\* the rows appended since the invocations started, as lists of fields
NewRows ==
    LET all == Rows(could_log)
    IN  [i \in 1..(Len(all) - Len(Rows(prior_log))) |->
            Split(all[i + Len(Rows(prior_log))], ",")]

NoDuplicates(s) == \A i, j \in DOMAIN s : s[i] = s[j] => i = j

\* the accounts whose name is the first field of a line of the key-holder
\* file: the line starts with the name and a colon, or is the name
KeyHolders ==
    {passwd[i].pw_name : i \in {k \in DOMAIN passwd :
        \E n \in DOMAIN keys_file :
            \/ IsPrefix(passwd[k].pw_name \o <<":">>, keys_file[n])
            \/ keys_file[n] = passwd[k].pw_name}}

\* invocation w appended a row [timestamp, human_timestamp, name_1, ...]
\* whose names are those of the set names, none twice
AppendedRow(w, names) ==
    \E i \in DOMAIN NewRows :
        LET fields == NewRows[i]
        IN  /\ Len(fields) >= 2
            /\ fields[1] = FloatRepr(wrow[w].timestamp)
            /\ fields[2] = HumanTimestamp(wrow[w].timestamp)
            /\ NoDuplicates(SubSeq(fields, 3, Len(fields)))
            /\ Range(SubSeq(fields, 3, Len(fields))) = names

\* C10 as stated: log_could_access appends one row [timestamp,
\* human_timestamp, name_1, ...] whose names are the resolved display names
\* (the renderer's fallback rule) of exactly the accounts whose account name
\* is the first field of a line of the key-holder file, none twice.
C10_DisplayNames ==
    /\ Len(NewRows) = Cardinality(Closed)
    /\ \A w \in Closed : AppendedRow(w, {DisplayName(u) : u \in KeyHolders})

\* C10, amended: log_could_access appends one row [timestamp,
\* human_timestamp, name_1, ...] whose names are the account names, as the
\* account database stores them and not resolved to display names, of
\* exactly the accounts whose account name is the first field of a line of
\* the key-holder file, none twice.
C10_AccountNames ==
    /\ Len(NewRows) = Cardinality(Closed)
    /\ \A w \in Closed : AppendedRow(w, KeyHolders)

\* the database lists "a" twice, the key-holder file has a key of "a" and a
\* line without a colon, and an invocation has appended a row naming "a"
C10_Witness ==
    /\ Len(passwd) = 2
    /\ passwd[1].pw_name = <<"a">>
    /\ passwd[2].pw_name = <<"a">>
    /\ keys_file = << <<"a", "\n">>, <<"a", ":", "k", "\n">> >>
    /\ \E w \in Closed : wrow[w].users = << <<"a">> >>
    /\ Len(NewRows) = 1

----------------------------------------------------------------------------
(* Claims about the records of the aggregator *)

\* C11: after aggregation, in both queries, every per-date record of the
\* records mapping has a non-empty users collection, also when a snapshot row
\* in the window carries a timestamp and no user fields.
C11_NonEmptyUsers ==
    Aggregated => \A r \in DOMAIN records : records[r].users # <<>>

----------------------------------------------------------------------------
(* Claims about the order of the merged intervals *)

\* C12: for every mapping of single-day records, the intervals sort_and_merge
\* returns are in strictly increasing chronological order and do not
\* overlap: each interval has start <= end, and each interval's start is
\* strictly after the end of the interval before it.
C12_OrderedDisjoint ==
    pc = "merged" =>
        /\ \A m \in DOMAIN merged_records :
               merged_records[m].start <= merged_records[m].end
        /\ \A m \in 2..Len(merged_records) :
               merged_records[m].start > merged_records[m - 1].end

\* a mapping whose dates were inserted out of order gave an interval of
\* several days directly followed by another interval
C12_Witness ==
    /\ pc = "merged"
    /\ \E i \in 1..(Len(records) - 1) : records[i].key > records[i + 1].key
    /\ \E m \in 2..Len(merged_records) :
           /\ merged_records[m - 1].start < merged_records[m - 1].end
           /\ merged_records[m].start = merged_records[m - 1].end + 1

----------------------------------------------------------------------------
(* Claims about the users of the merged intervals *)

\* the users named by some interval of the list
IntervalUsers(intervals) ==
    UNION {Range(intervals[m].users) : m \in DOMAIN intervals}

\* C13: for every sequence of entries, the union of the user lists of the
\* intervals sort_and_merge returns for the aggregated records is the set of
\* the aggregator's distinct-user list, whose length is the "N users" count
\* of the summary: merging loses no user, and no counted user is missing
\* from every interval.
C13_UsersPreserved ==
    /\ pc = "output" =>
           /\ IntervalUsers(sort_and_merge(records)) = Range(users)
           /\ Cardinality(IntervalUsers(sort_and_merge(records))) = Len(users)
    /\ (pc = "done" /\ ~output_csv /\ Len(users) # 0) =>
           /\ IntervalUsers(merged_records) = Range(users)
           /\ Cardinality(IntervalUsers(merged_records)) = Len(users)

\* the text report was printed for two users seen on consecutive days, one
\* each day: two intervals, each naming one of them
C13_Witness ==
    /\ pc = "done"
    /\ ~output_csv
    /\ Len(users) = 2
    /\ Len(merged_records) = 2
    /\ merged_records[2].start = merged_records[1].end + 1
    /\ Len(merged_records[1].users) = 1
    /\ Len(merged_records[2].users) = 1

----------------------------------------------------------------------------
(* Claims about the dates of the CSV header *)

\* C14: with query_time at midnight of today minus `days`, every calendar
\* date that has a per-date record from an in-window entry is one of the
\* `days` dates of the CSV header, so every user row output_csv_results
\* prints has at least one marked cell.
C14_EveryRowMarked ==
    CsvDone =>
        /\ \A r \in DOMAIN records :
               \E i \in 1..days : records[r].key = WindowDate(i)
        /\ \A k \in 2..Len(out) : MarkedCells(out[k]) >= 1

====
